---- MODULE Spec2Model ----
(***************************************************************************)
(* Model of the SAM3 inference service (services/sam3-service/app): the    *)
(* SAM3Predictor singleton with its one-image cache, the YOLO router's     *)
(* module globals, the concept-segment router's lazily loaded model, and   *)
(* the HTTP handlers that load, unload and use them.                       *)
(*                                                                         *)
(* The handlers are `async def` coroutines on one event loop: a handler    *)
(* runs without interruption up to an `await` that really suspends (the    *)
(* HTTP fetch of fetch_image), so each action is a handler, or the part of *)
(* a handler between two suspension points.                                *)
(***************************************************************************)
EXTENDS Integers, FiniteSets, Sequences, TLC

(* ---------------------------------------------------------------- bounds *)
NumReq == 2
NumImages == 2
NumWeights == 2

ImageIds == 1..NumImages
WeightIds == 1..NumWeights

(* Two measured load latencies (ms), so that two loads can record different *)
(* values.                                                                  *)
LoadTimes == {1500, 9000}

(* Python's None, for the Optional fields. *)
None == 0

(* max_dimension: int = 2048 *)
MaxDimension == 2048

(* The pixel size of the image behind asset i: its largest dimension is    *)
(* i * 2048, so asset 1 is cached unscaled and the others are downsized.   *)
ImageMaxDim(i) == i * MaxDimension

(* A scale factor max_dimension / max_dim is kept as the pair <<num, den>>;*)
(* 1.0 is <<1, 1>>.                                                        *)
ScaleOne == <<1, 1>>

(* Python's int() of the quotient n / d (d > 0): truncation toward zero. *)
Trunc(n, d) == IF n >= 0 THEN n \div d ELSE -((-n) \div d)

(* The largest dimension of the image as it is cached or segmented: images  *)
(* over max_dimension are resized to int(max_dim * scale).                  *)
CachedMaxDim(i) ==
    IF ImageMaxDim(i) > MaxDimension
    THEN Trunc(ImageMaxDim(i) * MaxDimension, ImageMaxDim(i))
    ELSE ImageMaxDim(i)

(* The far corner of the bounding box of the mask the model returns for     *)
(* image i, in the pixels of the image the model was given: here the mask   *)
(* covers that image.                                                       *)
MaskCoord(i) == CachedMaxDim(i) - 1

(* Variant: the caller's coordinate is passed on as it is. *)
ScalePoint_Skip(x, scale) == x
(* int(p.x * scale_factor): a caller's coordinate in the resized image. *)
ScalePoint(x, scale) == Trunc(x * scale[1], scale[2])

(* Variant: the coordinate is returned as the model gave it. *)
ScaleBack_Skip(c, scale) == c
(* int(coord * inverse_scale) when scale_factor != 1.0: a coordinate of the *)
(* resized image in the original image.                                     *)
ScaleBack(c, scale) ==
    IF scale # ScaleOne THEN Trunc(c * scale[2], scale[1]) ELSE c

VARIABLES
    predictor,          \* the SAM3Predictor singleton's fields
    current_model,      \* yolo.py: the resident YOLO weights (None or a weight id)
    current_model_id,   \* yolo.py: the identifier status reports
    seg,                \* segment.py: _model, _processor, _device
    req,                \* the requests suspended in `await fetch_image`: how many per (handler, asset)
    last                \* the response (and effects) of the handler step that just ran

vars == <<predictor, current_model, current_model_id, seg, req, last>>

(* ------------------------------------------------------------- predictor *)

(* SAM3Predictor.__init__ *)
PredictorInit ==
    [ model_loaded |-> FALSE,
      sam3 |-> FALSE,             \* self.sam3 is not None
      sam3_image |-> None,        \* the image the SamGeo3 object was primed with
      load_time_ms |-> None,
      image_id |-> None,          \* _current_image_id
      image_path |-> None,        \* _current_image_path (named by the image it holds)
      scale_factor |-> ScaleOne ] \* _current_scale_factor

(* What the library call SamGeo3(...) can do: succeed after ms, or raise. *)
LoadOutcomes == {[ok |-> FALSE, ms |-> None]} \cup [ok : {TRUE}, ms : LoadTimes]

(* The outcomes to consider for a load_model call on p: the constructor is  *)
(* only reached when the model is not loaded.                               *)
LoadChoices(p) ==
    IF p.model_loaded THEN {[ok |-> TRUE, ms |-> None]} ELSE LoadOutcomes

(* The outcomes to consider for releasing a model: nothing is released when *)
(* it is not loaded.                                                        *)
UnloadChoices(loaded) == IF loaded THEN BOOLEAN ELSE {TRUE}

(* SAM3Predictor.load_model: the fast path at the top. *)
PredictorAlreadyLoaded(p) == p.model_loaded

(* SAM3Predictor.load_model, with the outcome `out` of constructing SamGeo3.*)
(* Result: the predictor afterwards, the returned bool, whether the         *)
(* constructor was called (tried) and whether the weights were constructed. *)
SAM3Predictor_load_model(p, out) ==
    IF PredictorAlreadyLoaded(p)
    THEN [p |-> p, ret |-> TRUE, tried |-> FALSE, built |-> FALSE]
    ELSE IF out.ok
         THEN [p |-> [p EXCEPT !.sam3 = TRUE, !.sam3_image = None,
                               !.load_time_ms = out.ms, !.model_loaded = TRUE],
               ret |-> TRUE, tried |-> TRUE, built |-> TRUE]
         ELSE [p |-> p, ret |-> FALSE, tried |-> TRUE, built |-> FALSE]


(* What decoding the fetched bytes and priming the model can do. *)
ImageOutcomes == [decode_ok : BOOLEAN, set_image_ok : BOOLEAN]

(* Variant: no image is downsized. *)
ComputeScaleFactor_Unscaled(max_dim, max_dimension) == ScaleOne
(* set_image_from_bytes: the scale factor of a newly decoded image. *)
ComputeScaleFactor(max_dim, max_dimension) ==
    IF max_dim > max_dimension THEN <<max_dimension, max_dim>> ELSE ScaleOne

(* set_image_from_bytes: the cache-hit test. *)
(* Variant: the cache is never hit. *)
SameImage_Never(p, image_id) == FALSE
SameImage(p, image_id) == p.image_id = image_id

(* set_image_from_bytes: the assignments after sam3.set_image(temp_path)    *)
(* returned. The temp file is named by the image whose pixels it holds.     *)
(* Variant: the prior session's scale factor is kept. *)
StoreSession_KeepScale(p, image_id, scale) ==
    [p EXCEPT !.sam3_image = image_id, !.image_id = image_id,
              !.image_path = image_id]
StoreSession(p, image_id, scale) ==
    [p EXCEPT !.sam3_image = image_id, !.image_id = image_id,
              !.image_path = image_id, !.scale_factor = scale]

(* set_image_from_bytes: sam3.set_image(temp_path) raised, the assignments  *)
(* after it are skipped and the handler only logs.                          *)
(* Variant: the session is assigned before the model is primed. *)
RejectedSession_Stored(p, image_id, scale) == StoreSession(p, image_id, scale)
RejectedSession(p, image_id, scale) == p

(* SAM3Predictor.set_image_from_bytes(image_bytes, image_id) for the bytes  *)
(* of asset image_id, with the outcomes of the load it may need (lo) and of *)
(* the decode and the model's set_image (io). Result: the predictor after,  *)
(* the returned (success, scale), how the call ended (a cache hit, a new    *)
(* session stored, or failed), and what was done on the way.                *)
SAM3Predictor_set_image_from_bytes(p, image_id, lo, io) ==
    LET ld == IF ~p.model_loaded
              THEN SAM3Predictor_load_model(p, lo)
              ELSE [p |-> p, ret |-> TRUE, tried |-> FALSE, built |-> FALSE]
        q == ld.p
        done == [p |-> q, success |-> FALSE, scale |-> ScaleOne,
                 how |-> "failed", decoded |-> FALSE, primed |-> FALSE,
                 built |-> ld.built, tried |-> ld.tried,
                 load_failed |-> ~ld.ret]
    IN  IF ~ld.ret
        THEN done
        ELSE IF SameImage(q, image_id)
        THEN [done EXCEPT !.success = TRUE, !.scale = q.scale_factor,
                          !.how = "hit"]
        ELSE IF ~io.decode_ok
        THEN [done EXCEPT !.decoded = TRUE]
        ELSE LET scale == ComputeScaleFactor(ImageMaxDim(image_id), MaxDimension)
             IN  IF ~io.set_image_ok
                 THEN [done EXCEPT !.p = RejectedSession(q, image_id, scale),
                                   !.decoded = TRUE, !.primed = TRUE]
                 ELSE [done EXCEPT !.p = StoreSession(q, image_id, scale),
                                   !.success = TRUE, !.scale = scale,
                                   !.how = "stored",
                                   !.decoded = TRUE, !.primed = TRUE]

(* SAM3Predictor.get_scale_factor *)
get_scale_factor(p) == p.scale_factor

(* SAM3Predictor.predict: None (FALSE) when the model is not loaded, no     *)
(* image is set, or the model call raises; the model call raises when the   *)
(* SamGeo3 object holds no image. Otherwise the mask of the image the model *)
(* holds. error is metadata["error"]: "str(e)" stands for the text of the   *)
(* exception the model call raised.                                         *)
SAM3Predictor_predict(p, call_ok) ==
    IF ~p.model_loaded \/ ~p.sam3
    THEN [mask |-> FALSE, called |-> FALSE, on_image |-> None,
          error |-> "Model not loaded"]
    ELSE IF p.image_id = None
    THEN [mask |-> FALSE, called |-> FALSE, on_image |-> None,
          error |-> "No image set"]
    ELSE IF call_ok /\ p.sam3_image # None
    THEN [mask |-> TRUE, called |-> TRUE, on_image |-> p.sam3_image,
          error |-> "none"]
    ELSE [mask |-> FALSE, called |-> TRUE, on_image |-> p.sam3_image,
          error |-> "str(e)"]

(* SAM3Predictor.unload_model is called by health.py and yolo.py; it        *)
(* releases the model if loaded, is idempotent, and reports                 *)
(* {"success": ...}. ok is whether the release works.                       *)
SAM3Predictor_unload_model(p, ok) ==
    IF ~p.model_loaded
    THEN [p |-> p, success |-> TRUE]
    ELSE IF ok
    THEN [p |-> [p EXCEPT !.sam3 = FALSE, !.sam3_image = None,
                          !.model_loaded = FALSE],
          success |-> TRUE]
    ELSE [p |-> p, success |-> FALSE]

(* --------------------------------------------------------------- segment *)

(* segment.py: _model = None, _processor = None, _device = None *)
SegInit == [model |-> FALSE, processor |-> FALSE, device |-> FALSE]

(* Where loading the transformers model can stop. *)
SegLoadOutcomes == {"ok", "import_error", "model_error", "processor_error"}

(* segment.get_model: loads when _model is None; raises HTTPException(503)  *)
(* when the import or a from_pretrained call raises.                        *)
get_model(s, out) ==
    IF s.model
    THEN [seg |-> s, raised |-> FALSE, built |-> FALSE]
    ELSE CASE out = "import_error" ->
                [seg |-> s, raised |-> TRUE, built |-> FALSE]
           [] out = "model_error" ->
                [seg |-> [s EXCEPT !.device = TRUE],
                 raised |-> TRUE, built |-> FALSE]
           [] out = "processor_error" ->
                [seg |-> [s EXCEPT !.device = TRUE, !.model = TRUE],
                 raised |-> TRUE, built |-> TRUE]
           [] OTHER ->
                [seg |-> [s EXCEPT !.device = TRUE, !.model = TRUE,
                                   !.processor = TRUE],
                 raised |-> FALSE, built |-> TRUE]

(* segment.unload_model is imported by health.py and yolo.py; it releases   *)
(* the concept-segment model if loaded, is idempotent, and reports          *)
(* {"success": ...}.                                                        *)
segment_unload_model(s, ok) ==
    IF ~s.model
    THEN [seg |-> s, success |-> TRUE]
    ELSE IF ok
    THEN [seg |-> [s EXCEPT !.model = FALSE, !.processor = FALSE],
          success |-> TRUE]
    ELSE [seg |-> s, success |-> FALSE]

(* ------------------------------------------------------------------ yolo *)

(* yolo.unload_current_model: the globals (current_model, current_model_id) *)
(* afterwards.                                                              *)
(* Variant: the resident weights are kept. *)
unload_current_model_Skip(cm, cid) == <<cm, cid>>
unload_current_model(cm, cid) ==
    IF cm = None THEN <<cm, cid>> ELSE <<None, None>>

(* yolo.ensure_sam3_unloaded: both unloads are called and their results     *)
(* dropped.                                                                 *)
ensure_sam3_unloaded(p, s, pok, sok) ==
    [p |-> SAM3Predictor_unload_model(p, pok).p,
     seg |-> segment_unload_model(s, sok).seg]

(* yolo.load_model: the fast path. *)
(* Variant: no fast path. *)
YoloAlreadyLoaded_Never(cm, cid, model_id) == FALSE
YoloAlreadyLoaded(cm, cid, model_id) == cm # None /\ cid = model_id

(* What download_weights and YOLO(weights_path) can do. *)
WeightOutcomes == {"ok", "download_error", "construct_error"}

(* yolo.load_model's assignments after YOLO(weights_path) returned: the     *)
(* weights now resident and the identifier recorded for them.               *)
StoreWeights(model_id) == <<model_id, model_id>>

(* yolo.load_model(LoadRequest(model_id)) on the state (p, s, cm, cid).     *)
(* Result: the state afterwards, the HTTP status, the model_id in the body, *)
(* whether weights were constructed, and the weights that were resident at  *)
(* the moment they were.                                                    *)
yolo_load_model(p, s, cm, cid, model_id, pok, sok, wo) ==
    IF YoloAlreadyLoaded(cm, cid, model_id)
    THEN [p |-> p, seg |-> s, cm |-> cm, cid |-> cid, status |-> 200,
          model_id |-> cid, built |-> FALSE, prior |-> None, fast |-> TRUE]
    ELSE LET e == ensure_sam3_unloaded(p, s, pok, sok)
             u == unload_current_model(cm, cid)
         IN  IF wo = "ok"
             THEN [p |-> e.p, seg |-> e.seg,
                   cm |-> StoreWeights(model_id)[1],
                   cid |-> StoreWeights(model_id)[2],
                   status |-> 200, model_id |-> model_id,
                   built |-> TRUE, prior |-> u[1], fast |-> FALSE]
             ELSE [p |-> e.p, seg |-> e.seg, cm |-> u[1], cid |-> u[2],
                   status |-> 500, model_id |-> None,
                   built |-> FALSE, prior |-> None, fast |-> FALSE]

(* yolo.status: the body of GET /api/v1/yolo/status. *)
yolo_status(cm, cid) == [model_loaded |-> cm # None, model_id |-> cid]

(* ------------------------------------------------------------- responses *)

(* The record kept of the handler step that just ran: which handler, its   *)
(* argument, the HTTP status and the body's success flag, and what the      *)
(* handler did on the way. Handles is the snapshot taken when it began.     *)
Handles ==
    [ sam3 |-> predictor.model_loaded, segment |-> seg.model,
      yolo |-> current_model, image |-> predictor.image_id ]

NoHandles == [sam3 |-> FALSE, segment |-> FALSE, yolo |-> None, image |-> None]

NoResponse ==
    [ op |-> "none", arg |-> None, status |-> 200, success |-> TRUE,
      fast |-> FALSE,          \* answered from a fast path
      built |-> {},            \* the families whose weights were constructed
      prior |-> None,          \* YOLO weights resident when new ones were constructed
      decoded |-> FALSE,       \* the image bytes were decoded
      primed |-> FALSE,        \* the model's set_image was called
      ensured |-> "no",        \* set_image_from_bytes: not called ("no"), or how it ended
      scale |-> ScaleOne,      \* the scale factor returned or used
      model_id |-> None,       \* the model_id of the body
      model_loaded |-> FALSE,  \* the model_loaded of the body
      predictor_ok |-> TRUE,   \* /unload: the predictor's result
      segment_ok |-> TRUE,     \* /unload: the segment model's result
      called |-> FALSE,        \* the mask predictor was invoked
      on_image |-> None,       \* the image the returned mask was computed on
      bbox |-> None,           \* the far corner of the returned bbox
      load_failed |-> FALSE,   \* a load_model call returned False
      detail |-> "none",       \* the HTTPException's detail, without the cause
      cause |-> "none",        \* the error text the detail carries
      mode |-> "none",         \* /segment: the mode of the body
      pre |-> NoHandles ]      \* what was loaded and cached when the step began

Response(op, arg, status) ==
    [NoResponse EXCEPT !.op = op, !.arg = arg, !.status = status,
                       !.success = (status = 200), !.pre = Handles]

(* The handlers that suspend, with the asset they were called for. *)
ReqKinds == {"predict", "preload"} \X ImageIds

RECURSIVE SumOver(_, _)
SumOver(f, S) ==
    IF S = {} THEN 0
    ELSE LET x == CHOOSE y \in S : TRUE IN f[x] + SumOver(f, S \ {x})

(* The number of requests in flight. *)
InFlight == SumOver(req, ReqKinds)

Suspend(op, image_id) == [req EXCEPT ![<<op, image_id>>] = @ + 1]
ResumeReq(op, image_id) == [req EXCEPT ![<<op, image_id>>] = @ - 1]

(* No response is waiting to be delivered: the event loop is free to run    *)
(* the next handler step.                                                   *)
Quiet == last.op = "none"

Init ==
    /\ predictor = PredictorInit
    /\ current_model = None
    /\ current_model_id = None
    /\ seg = SegInit
    /\ req = [k \in ReqKinds |-> 0]
    /\ last = NoResponse

(* ---------------------------------------------------------------- health *)

(* health.warmup_model *)
Warmup ==
    /\ Quiet
    /\ \E lo \in LoadChoices(predictor) :
           IF predictor.model_loaded
           THEN /\ last' = [Response("warmup", None, 200) EXCEPT !.fast = TRUE]
                /\ UNCHANGED <<predictor, current_model, current_model_id, seg, req>>
           ELSE LET ld == SAM3Predictor_load_model(predictor, lo)
                IN  /\ predictor' = ld.p
                    /\ last' = [Response("warmup", None, 200) EXCEPT
                                  !.success = ld.ret,
                                  !.built = IF ld.built THEN {"sam3"} ELSE {}]
                    /\ UNCHANGED <<current_model, current_model_id, seg, req>>

(* health.unload_model: success = predictor_result.get("success") and       *)
(* segment_result.get("success").                                           *)
(* Variant: one successful unload is enough. *)
UnloadAllSuccess_Either(predictor_result, segment_result) ==
    predictor_result \/ segment_result
UnloadAllSuccess(predictor_result, segment_result) ==
    predictor_result /\ segment_result

HealthUnload ==
    /\ Quiet
    /\ \E pok \in UnloadChoices(predictor.model_loaded),
          sok \in UnloadChoices(seg.model) :
           LET pr == SAM3Predictor_unload_model(predictor, pok)
               sr == segment_unload_model(seg, sok)
           IN  /\ predictor' = pr.p
               /\ seg' = sr.seg
               /\ last' = [Response("unload_all", None, 200) EXCEPT
                             !.success = UnloadAllSuccess(pr.success, sr.success),
                             !.predictor_ok = pr.success,
                             !.segment_ok = sr.success]
               /\ UNCHANGED <<current_model, current_model_id, req>>

(* ------------------------------------------------------- yolo's handlers *)

(* The outcomes to consider for download_weights and YOLO(...): they are    *)
(* only reached off the fast path.                                          *)
WeightChoices(model_id) ==
    IF YoloAlreadyLoaded(current_model, current_model_id, model_id)
    THEN {"ok"} ELSE WeightOutcomes

(* The outcomes to consider for the two unloads of ensure_sam3_unloaded. *)
EvictChoices(model_id, loaded) ==
    IF YoloAlreadyLoaded(current_model, current_model_id, model_id)
    THEN {TRUE} ELSE UnloadChoices(loaded)

(* POST /api/v1/yolo/load *)
YoloLoad ==
    /\ Quiet
    /\ \E model_id \in WeightIds :
       \E pok \in EvictChoices(model_id, predictor.model_loaded),
          sok \in EvictChoices(model_id, seg.model),
          wo \in WeightChoices(model_id) :
           LET r == yolo_load_model(predictor, seg, current_model,
                                    current_model_id, model_id, pok, sok, wo)
           IN  /\ predictor' = r.p
               /\ seg' = r.seg
               /\ current_model' = r.cm
               /\ current_model_id' = r.cid
               /\ last' = [Response("yolo_load", model_id, r.status) EXCEPT
                             !.fast = r.fast,
                             !.built = IF r.built THEN {"yolo"} ELSE {},
                             !.prior = r.prior,
                             !.model_id = r.model_id]
               /\ UNCHANGED req

(* POST /api/v1/yolo/unload *)
(* Variant: the handler unloads the predictor as well. *)
YoloUnload_EvictsPredictor ==
    /\ Quiet
    /\ LET u == unload_current_model(current_model, current_model_id)
       IN  /\ current_model' = u[1]
           /\ current_model_id' = u[2]
           /\ predictor' = SAM3Predictor_unload_model(predictor, TRUE).p
           /\ last' = Response("yolo_unload", None, 200)
           /\ UNCHANGED <<seg, req>>
YoloUnload ==
    /\ Quiet
    /\ LET u == unload_current_model(current_model, current_model_id)
       IN  /\ current_model' = u[1]
           /\ current_model_id' = u[2]
           /\ last' = Response("yolo_unload", None, 200)
           /\ UNCHANGED <<predictor, seg, req>>

(* GET /api/v1/yolo/status *)
YoloStatus ==
    /\ Quiet
    /\ LET b == yolo_status(current_model, current_model_id)
       IN  /\ last' = [Response("yolo_status", None, 200) EXCEPT
                         !.model_loaded = b.model_loaded,
                         !.model_id = b.model_id]
           /\ UNCHANGED <<predictor, current_model, current_model_id, seg, req>>

(* POST /api/v1/yolo/detect without a model_id, or without image and        *)
(* s3_path: 400 before anything is touched.                                 *)
YoloDetectInvalid ==
    /\ Quiet
    /\ last' = Response("detect", None, 400)
    /\ UNCHANGED <<predictor, current_model, current_model_id, seg, req>>

(* POST /api/v1/yolo/detect with a model_id and an image. run_ok: reading   *)
(* the image and the model's predict work.                                  *)
YoloDetect ==
    /\ Quiet
    /\ \E model_id \in WeightIds :
       \E pok \in EvictChoices(model_id, predictor.model_loaded),
          sok \in EvictChoices(model_id, seg.model),
          wo \in WeightChoices(model_id) :
       \E run_ok \in (IF wo = "ok" THEN BOOLEAN ELSE {TRUE}) :
           LET need == current_model = None \/ current_model_id # model_id
               r == IF need
                    THEN yolo_load_model(predictor, seg, current_model,
                                         current_model_id, model_id,
                                         pok, sok, wo)
                    ELSE [p |-> predictor, seg |-> seg, cm |-> current_model,
                          cid |-> current_model_id, status |-> 200,
                          model_id |-> current_model_id, built |-> FALSE,
                          prior |-> None, fast |-> FALSE]
               status == IF r.status # 200 THEN r.status
                         ELSE IF r.cm = None THEN 500
                         ELSE IF ~run_ok THEN 500
                         ELSE 200
           IN  /\ predictor' = r.p
               /\ seg' = r.seg
               /\ current_model' = r.cm
               /\ current_model_id' = r.cid
               /\ last' = [Response("detect", model_id, status) EXCEPT
                             !.built = IF r.built THEN {"yolo"} ELSE {},
                             !.prior = r.prior,
                             !.model_id = IF status # 200 THEN None
                                          ELSE IF r.cid # None THEN r.cid
                                          ELSE model_id]
               /\ UNCHANGED req

(* ---------------------------------------------------- segment's handlers *)

(* resize_image_if_needed(image, max_size: int = 2048) *)
SegmentMaxSize == 2048

(* segment.resize_image_if_needed: the scale factor it returns for an image *)
(* whose largest dimension is max_dim.                                      *)
resize_image_if_needed(max_dim, max_size) ==
    IF max_dim <= max_size THEN ScaleOne ELSE <<max_size, max_dim>>

(* Variant: boxes are looked at before exemplar crops. *)
SegmentMode_BoxesFirst(has_crops, has_boxes, has_class) ==
    IF has_boxes THEN "boxes"
    ELSE IF has_crops THEN "exemplar_crops"
    ELSE IF has_class THEN "text"
    ELSE "unknown"
(* segment.segment: the mode chosen from what the request supplies. *)
SegmentMode(has_crops, has_boxes, has_class) ==
    IF has_crops THEN "exemplar_crops"
    ELSE IF has_boxes THEN "boxes"
    ELSE IF has_class THEN "text"
    ELSE "unknown"

(* The outcomes to consider for get_model's load: only reached when _model  *)
(* is None.                                                                 *)
SegLoadChoices(s) == IF s.model THEN {"ok"} ELSE SegLoadOutcomes

(* POST /segment, when get_model raises: 503. *)
SegmentUnavailable ==
    /\ Quiet
    /\ ~seg.model
    /\ \E slo \in SegLoadOutcomes \ {"ok"} :
        LET g == get_model(seg, slo)
        IN  /\ seg' = g.seg
            /\ last' = [Response("segment", None, 503) EXCEPT
                          !.built = IF g.built THEN {"segment"} ELSE {}]
            /\ UNCHANGED <<predictor, current_model, current_model_id, req>>

(* POST /segment, when get_model returns and the target image does not     *)
(* decode: 400.                                                             *)
SegmentInvalidImage ==
    /\ Quiet
    /\ LET g == get_model(seg, "ok")
       IN  /\ seg' = g.seg
           /\ last' = [Response("segment", None, 400) EXCEPT
                         !.fast = ~g.built,
                         !.built = IF g.built THEN {"segment"} ELSE {}]
           /\ UNCHANGED <<predictor, current_model, current_model_id, req>>

(* The outcomes to consider for the processor and model calls of a mode:    *)
(* in exemplar mode a failing crop is skipped, and without a prompt none is *)
(* made.                                                                    *)
InferChoices(mode) == IF mode \in {"boxes", "text"} THEN BOOLEAN ELSE {TRUE}

(* POST /segment, when get_model returns and the target image decodes.      *)
(* infer_ok: the processor and model calls work (they cannot when           *)
(* _processor is None). In exemplar mode a failing crop is skipped; in the  *)
(* other modes the exception leaves the handler. When they work the model   *)
(* finds one object, whose mask covers the (resized) target.                *)
Segment ==
    /\ Quiet
    /\ \E has_crops \in BOOLEAN, has_boxes \in BOOLEAN, has_class \in BOOLEAN,
          target \in ImageIds :
       \E infer_ok \in InferChoices(SegmentMode(has_crops, has_boxes, has_class)) :
           LET g == get_model(seg, "ok")
               mode == SegmentMode(has_crops, has_boxes, has_class)
               works == infer_ok /\ g.seg.processor
               scale_factor == resize_image_if_needed(ImageMaxDim(target),
                                                      SegmentMaxSize)
               found == mode # "unknown" /\ works
               status == IF mode = "exemplar_crops" THEN 200
                         ELSE IF mode = "unknown" THEN 400
                         ELSE IF works THEN 200 ELSE 500
           IN  /\ seg' = g.seg
               /\ last' = [Response("segment", target, status) EXCEPT
                             !.fast = ~g.built,
                             !.built = IF g.built THEN {"segment"} ELSE {},
                             !.mode = IF status = 200 THEN mode ELSE "none",
                             !.scale = scale_factor,
                             !.on_image = IF found THEN target ELSE None,
                             !.bbox = IF found
                                      THEN ScaleBack(MaskCoord(target),
                                                     scale_factor)
                                      ELSE None]
               /\ UNCHANGED <<predictor, current_model, current_model_id, req>>

(* GET /segment/health: get_model inside try/except Exception. *)
SegmentHealth ==
    /\ Quiet
    /\ \E slo \in SegLoadChoices(seg) :
           LET g == get_model(seg, slo)
           IN  /\ seg' = g.seg
               /\ last' = [Response("segment_health", None, 200) EXCEPT
                             !.success = ~g.raised,
                             !.fast = ~g.raised /\ ~g.built,
                             !.built = IF g.built THEN {"segment"} ELSE {},
                             !.model_loaded = ~g.raised /\ g.seg.model]
               /\ UNCHANGED <<predictor, current_model, current_model_id, req>>

(* ---------------------------------------------------- predict's handlers *)

(* predict.predict from the scaling of the points to the response, on the   *)
(* predictor p with the scale factor the handler holds.                     *)
PredictTail(p, scale, call_ok, base) ==
    LET pr == SAM3Predictor_predict(p, call_ok)
    IN  [base EXCEPT !.status = IF pr.mask THEN 200 ELSE 500,
                     !.success = pr.mask,
                     !.scale = scale,
                     !.called = pr.called,
                     !.on_image = IF pr.mask THEN pr.on_image ELSE None,
                     !.bbox = IF pr.mask
                              THEN ScaleBack(MaskCoord(pr.on_image), scale)
                              ELSE None,
                     !.detail = IF pr.mask THEN "none" ELSE "Prediction failed",
                     !.cause = pr.error]

(* The start of predict and preload_image: load the model if it is not. *)
EnsureLoaded(p, lo) ==
    IF ~p.model_loaded
    THEN SAM3Predictor_load_model(p, lo)
    ELSE [p |-> p, ret |-> TRUE, tried |-> FALSE, built |-> FALSE]

(* POST /api/v1/predict up to `await fetch_image`: loads the model if       *)
(* needed, and answers at once when the asset is the cached one.            *)
PredictBegin ==
    /\ Quiet
    /\ InFlight < NumReq
    /\ \E image_id \in ImageIds, lo \in LoadChoices(predictor) :
        LET ld == EnsureLoaded(predictor, lo)
            base == [Response("predict", image_id, 200) EXCEPT
                       !.built = IF ld.built THEN {"sam3"} ELSE {},
                       !.load_failed = ~ld.ret]
        IN  /\ predictor' = ld.p
            /\ IF ~ld.ret
               THEN /\ last' = [base EXCEPT
                                  !.status = 503, !.success = FALSE,
                                  !.detail = "Failed to load SAM3 model"]
                    /\ UNCHANGED req
               ELSE IF ld.p.image_id # image_id
               THEN /\ req' = Suspend("predict", image_id)
                    /\ last' = [base EXCEPT !.op = "predict_fetch",
                                            !.status = None,
                                            !.success = FALSE]
               ELSE /\ \E call_ok \in BOOLEAN :
                          last' = PredictTail(ld.p, get_scale_factor(ld.p),
                                              call_ok,
                                              [base EXCEPT !.fast = TRUE])
                    /\ UNCHANGED req
            /\ UNCHANGED <<current_model, current_model_id, seg>>

(* POST /api/v1/predict when fetch_image returns None: 400. *)
PredictFetchFailed ==
    /\ Quiet
    /\ \E image_id \in ImageIds :
           /\ req[<<"predict", image_id>>] > 0
           /\ req' = ResumeReq("predict", image_id)
           /\ last' = [Response("predict", image_id, 400) EXCEPT
                         !.detail = "Failed to fetch image from URL"]
           /\ UNCHANGED <<predictor, current_model, current_model_id, seg>>

(* The outcomes to consider for the decode and the model's set_image: only  *)
(* reached on a cache miss with the model loaded; set_image only after a    *)
(* decode that worked.                                                      *)
ImageChoices(p, image_id, lo) ==
    LET q == EnsureLoaded(p, lo)
    IN  IF ~q.ret \/ SameImage(q.p, image_id)
        THEN {[decode_ok |-> TRUE, set_image_ok |-> TRUE]}
        ELSE {[decode_ok |-> FALSE, set_image_ok |-> TRUE]}
             \cup [decode_ok : {TRUE}, set_image_ok : BOOLEAN]

(* POST /api/v1/predict from the return of fetch_image with the bytes on. *)
PredictResume ==
    /\ Quiet
    /\ \E image_id \in ImageIds :
           /\ req[<<"predict", image_id>>] > 0
           /\ \E lo \in LoadChoices(predictor) :
              \E io \in ImageChoices(predictor, image_id, lo) :
               LET e == SAM3Predictor_set_image_from_bytes(predictor, image_id,
                                                           lo, io)
                   base == [Response("predict", image_id, 200) EXCEPT
                              !.ensured = e.how,
                              !.fast = e.success /\ ~e.decoded,
                              !.built = IF e.built THEN {"sam3"} ELSE {},
                              !.decoded = e.decoded,
                              !.primed = e.primed,
                              !.scale = e.scale,
                              !.load_failed = e.load_failed]
               IN  /\ req' = ResumeReq("predict", image_id)
                   /\ predictor' = e.p
                   /\ IF ~e.success
                      THEN last' = [base EXCEPT
                                      !.status = 500, !.success = FALSE,
                                      !.detail =
                                          "Failed to set image for segmentation"]
                      ELSE \E call_ok \in BOOLEAN :
                               last' = PredictTail(e.p, e.scale, call_ok, base)
                   /\ UNCHANGED <<current_model, current_model_id, seg>>

(* predict.preload_image: `if not predictor.set_image_from_bytes(...)`      *)
(* tests the returned tuple (success, scale_factor).                        *)
PreloadFailed(success, scale) == ~(<<success, scale>> # <<>>)

(* POST /api/v1/preload up to `await fetch_image`. *)
PreloadBegin ==
    /\ Quiet
    /\ InFlight < NumReq
    /\ \E image_id \in ImageIds, lo \in LoadChoices(predictor) :
        LET ld == EnsureLoaded(predictor, lo)
            base == [Response("preload", image_id, 200) EXCEPT
                       !.built = IF ld.built THEN {"sam3"} ELSE {},
                       !.load_failed = ~ld.ret]
        IN  /\ predictor' = ld.p
            /\ IF ~ld.ret
               THEN /\ last' = [base EXCEPT
                                  !.status = 503, !.success = FALSE,
                                  !.detail = "Failed to load SAM3 model"]
                    /\ UNCHANGED req
               ELSE IF ld.p.image_id = image_id
               THEN /\ last' = [base EXCEPT !.fast = TRUE]
                    /\ UNCHANGED req
               ELSE /\ req' = Suspend("preload", image_id)
                    /\ last' = [base EXCEPT !.op = "preload_fetch",
                                            !.status = None,
                                            !.success = FALSE]
            /\ UNCHANGED <<current_model, current_model_id, seg>>

(* POST /api/v1/preload when fetch_image returns None: 400. *)
PreloadFetchFailed ==
    /\ Quiet
    /\ \E image_id \in ImageIds :
           /\ req[<<"preload", image_id>>] > 0
           /\ req' = ResumeReq("preload", image_id)
           /\ last' = [Response("preload", image_id, 400) EXCEPT
                         !.detail = "Failed to fetch image from URL"]
           /\ UNCHANGED <<predictor, current_model, current_model_id, seg>>

(* POST /api/v1/preload from the return of fetch_image with the bytes on. *)
PreloadResume ==
    /\ Quiet
    /\ \E image_id \in ImageIds :
           /\ req[<<"preload", image_id>>] > 0
           /\ \E lo \in LoadChoices(predictor) :
              \E io \in ImageChoices(predictor, image_id, lo) :
               LET e == SAM3Predictor_set_image_from_bytes(predictor, image_id,
                                                           lo, io)
                   failed == PreloadFailed(e.success, e.scale)
               IN  /\ req' = ResumeReq("preload", image_id)
                   /\ predictor' = e.p
                   /\ last' = [Response("preload", image_id,
                                        IF failed THEN 500 ELSE 200) EXCEPT
                                 !.ensured = e.how,
                                 !.fast = e.success /\ ~e.decoded,
                                 !.built = IF e.built THEN {"sam3"} ELSE {},
                                 !.decoded = e.decoded,
                                 !.primed = e.primed,
                                 !.scale = e.scale,
                                 !.load_failed = e.load_failed,
                                 !.detail = IF failed
                                            THEN "Failed to preload image"
                                            ELSE "none"]
                   /\ UNCHANGED <<current_model, current_model_id, seg>>

(* ------------------------------------------------------------ the system *)

(* The response of the step that just ran goes out to its client. *)
Deliver ==
    /\ ~Quiet
    /\ last' = NoResponse
    /\ UNCHANGED <<predictor, current_model, current_model_id, seg, req>>

Next ==
    \/ Deliver
    \/ YoloLoad
    \/ YoloUnload
    \/ YoloStatus
    \/ YoloDetectInvalid
    \/ YoloDetect
    \/ Warmup
    \/ HealthUnload
    \/ SegmentUnavailable
    \/ SegmentInvalidImage
    \/ Segment
    \/ SegmentHealth
    \/ PredictBegin
    \/ PredictFetchFailed
    \/ PredictResume
    \/ PreloadBegin
    \/ PreloadFetchFailed
    \/ PreloadResume

Spec == Init /\ [][Next]_vars

(* ------------------------------------------------- the scaling functions *)

(* The coordinate arithmetic on its own: an image of a given largest        *)
(* dimension is cached (or segmented), a coordinate of the original image   *)
(* is mapped into the resized image as predict maps click points and        *)
(* segment maps boxes, and mapped back as both map the returned geometry.   *)
(* `last` holds the computation; the service's state stays as constructed.  *)
MaxCoord == 12

(* Largest dimensions below, at and above max_dimension. *)
SampleDims == {640, 2048, 2049, 3000, 4096, 5000, 6144, 9000}

(* The coordinates tried in an image: those near the origin and the last.   *)
SampleCoords(max_dim) == (0..MaxCoord) \cup {max_dim - 1}

ScaleIdle ==
    /\ predictor = PredictorInit
    /\ current_model = None
    /\ current_model_id = None
    /\ seg = SegInit
    /\ req = [k \in ReqKinds |-> 0]

ScaleInit ==
    /\ ScaleIdle
    /\ \E max_dim \in SampleDims :
       \E x \in SampleCoords(max_dim) :
           last = [op |-> "image", max_dim |-> max_dim, x |-> x,
                   scale |-> None, seg_scale |-> None,
                   cached |-> None, back |-> None]

(* set_image_from_bytes and resize_image_if_needed compute the scale factor.*)
CacheImage ==
    /\ last.op = "image"
    /\ last' = [last EXCEPT
                  !.op = "cached",
                  !.scale = ComputeScaleFactor(last.max_dim, MaxDimension),
                  !.seg_scale = resize_image_if_needed(last.max_dim,
                                                       SegmentMaxSize)]
    /\ UNCHANGED <<predictor, current_model, current_model_id, seg, req>>

(* predict scales the click point into the resized image. *)
MapPoint ==
    /\ last.op = "cached"
    /\ last' = [last EXCEPT !.op = "mapped",
                            !.cached = ScalePoint(last.x, last.scale)]
    /\ UNCHANGED <<predictor, current_model, current_model_id, seg, req>>

(* predict scales a coordinate of the result back to the original image. *)
MapBack ==
    /\ last.op = "mapped"
    /\ last' = [last EXCEPT !.op = "returned",
                            !.back = ScaleBack(last.cached, last.scale)]
    /\ UNCHANGED <<predictor, current_model, current_model_id, seg, req>>

ScaleNext ==
    \/ CacheImage
    \/ MapPoint
    \/ MapBack

ScaleSpec == ScaleInit /\ [][ScaleNext]_vars

(* ------------------------------------------------- segment.calculate_iou *)

Max(a, b) == IF a >= b THEN a ELSE b
Min(a, b) == IF a <= b THEN a ELSE b

(* The area of a box [x1, y1, x2, y2] as calculate_iou computes it. *)
BoxArea(box) == (box[3] - box[1]) * (box[4] - box[2])

(* Variant: the intersection over the first box's area. *)
calculate_iou_OverFirst(box1, box2) ==
    LET x1 == Max(box1[1], box2[1])
        y1 == Max(box1[2], box2[2])
        x2 == Min(box1[3], box2[3])
        y2 == Min(box1[4], box2[4])
    IN  IF x2 <= x1 \/ y2 <= y1 THEN <<0, 1>>
        ELSE <<(x2 - x1) * (y2 - y1), BoxArea(box1)>>
(* segment.calculate_iou(box1, box2): the float it returns, kept as the     *)
(* pair <<numerator, denominator>>; 0.0 is <<0, 1>>.                        *)
calculate_iou(box1, box2) ==
    LET x1 == Max(box1[1], box2[1])
        y1 == Max(box1[2], box2[2])
        x2 == Min(box1[3], box2[3])
        y2 == Min(box1[4], box2[4])
    IN  IF x2 <= x1 \/ y2 <= y1 THEN <<0, 1>>
        ELSE LET intersection == (x2 - x1) * (y2 - y1)
                 union == BoxArea(box1) + BoxArea(box2) - intersection
             IN  IF union > 0 THEN <<intersection, union>> ELSE <<0, 1>>

(* iou > iou_threshold, both kept as pairs with positive denominators. *)
IouExceeds(iou, iou_threshold) ==
    iou[1] * iou_threshold[2] > iou_threshold[1] * iou[2]

(* Boxes on a small grid, well formed or not: x2, y2 may lie at or before   *)
(* x1, y1.                                                                  *)
MaxBox == 2
GridBoxes == (0..MaxBox) \X (0..MaxBox) \X (0..MaxBox) \X (0..MaxBox)

IouInit ==
    /\ ScaleIdle
    /\ \E box1 \in GridBoxes, box2 \in GridBoxes :
           last = [op |-> "boxes", box1 |-> box1, box2 |-> box2, iou |-> None]

CalculateIou ==
    /\ last.op = "boxes"
    /\ last' = [last EXCEPT !.op = "iou",
                            !.iou = calculate_iou(last.box1, last.box2)]
    /\ UNCHANGED <<predictor, current_model, current_model_id, seg, req>>

IouNext == CalculateIou

IouSpec == IouInit /\ [][IouNext]_vars

(* ---------------------------------------- segment.deduplicate_detections *)

(* A detection is a record with its bbox and confidence; src is its place   *)
(* in the list handed to deduplicate_detections (the dict's identity).      *)

(* det put into a list sorted by descending confidence, behind every        *)
(* element whose confidence is not lower.                                   *)
InsertByConfidence(det, sorted) ==
    LET k == Cardinality({i \in 1..Len(sorted) :
                              sorted[i].confidence >= det.confidence})
    IN  SubSeq(sorted, 1, k) \o <<det>> \o SubSeq(sorted, k + 1, Len(sorted))

(* Variant: the list is left in its original order. *)
SortByConfidence_Unsorted(detections) == detections
(* sorted(detections, key=lambda x: x['confidence'], reverse=True): a       *)
(* stable sort, so equal confidences keep their original order.             *)
RECURSIVE SortByConfidence(_)
SortByConfidence(detections) ==
    IF detections = <<>> THEN <<>>
    ELSE InsertByConfidence(detections[Len(detections)],
             SortByConfidence(SubSeq(detections, 1, Len(detections) - 1)))

(* The inner loop of deduplicate_detections: det overlaps a kept detection  *)
(* by more than the threshold.                                              *)
IsDuplicate(det, kept, iou_threshold) ==
    \E i \in 1..Len(kept) :
        IouExceeds(calculate_iou(det.bbox, kept[i].bbox), iou_threshold)

(* The outer loop of deduplicate_detections over sorted_dets. *)
RECURSIVE KeepLoop(_, _, _)
KeepLoop(sorted_dets, kept, iou_threshold) ==
    IF sorted_dets = <<>> THEN kept
    ELSE LET det == Head(sorted_dets)
         IN  KeepLoop(Tail(sorted_dets),
                      IF IsDuplicate(det, kept, iou_threshold)
                      THEN kept ELSE Append(kept, det),
                      iou_threshold)

(* segment.deduplicate_detections(detections, iou_threshold) *)
deduplicate_detections(detections, iou_threshold) ==
    IF detections = <<>> THEN <<>>
    ELSE KeepLoop(SortByConfidence(detections), <<>>, iou_threshold)

(* deduplicate_detections(detections, iou_threshold: float = 0.5) *)
DefaultIouThreshold == <<1, 2>>

(* Boxes with known overlaps: BoxA and BoxB have IoU 0.6, BoxA and BoxC     *)
(* 0.3, BoxB and BoxC exactly 0.5, and BoxD overlaps none of them.          *)
BoxA == <<0, 0, 10, 10>>
BoxB == <<0, 0, 10, 6>>
BoxC == <<0, 0, 10, 3>>
BoxD == <<20, 20, 30, 30>>
SampleBoxes == {BoxA, BoxB, BoxC, BoxD}

(* Confidences, in hundredths. *)
SampleConfidences == {50, 70, 90}

SampleThresholds == {DefaultIouThreshold, <<1, 4>>}

MaxDets == 3

(* The lists of up to MaxDets detections. *)
SampleDetections ==
    UNION {[1..n -> SampleBoxes \X SampleConfidences] : n \in 0..MaxDets}

DedupInit ==
    /\ ScaleIdle
    /\ \E f \in SampleDetections, iou_threshold \in SampleThresholds :
           last = [op |-> "detections",
                   detections |-> [i \in 1..Len(f) |->
                                      [bbox |-> f[i][1], confidence |-> f[i][2],
                                       src |-> i]],
                   iou_threshold |-> iou_threshold,
                   kept |-> <<>>]

Deduplicate ==
    /\ last.op = "detections"
    /\ last' = [last EXCEPT
                  !.op = "deduplicated",
                  !.kept = deduplicate_detections(last.detections,
                                                  last.iou_threshold)]
    /\ UNCHANGED <<predictor, current_model, current_model_id, seg, req>>

DedupNext == Deduplicate

DedupSpec == DedupInit /\ [][DedupNext]_vars

(* ------------------------------------------ segment.segment, in detail *)

(* POST /segment with its detections: what the request supplies, what the   *)
(* model finds at each call, and the detections of the response. The        *)
(* handler never suspends; Deliver hands its response out.                  *)
MaxCrops == 2

(* A raw detection of the model, in the pixels of the resized target. *)
Raw(bbox, confidence) == [bbox |-> bbox, confidence |-> confidence]

(* What one processor / model / post-process call can find: the detections  *)
(* that have a polygon, in the model's order.                               *)
CallResults ==
    { <<>>,
      <<Raw(BoxA, 90)>>,
      <<Raw(BoxB, 70)>>,
      <<Raw(BoxA, 90), Raw(BoxD, 70)>>,
      <<Raw(BoxC, 50), Raw(BoxB, 70)>>,
      <<Raw(BoxA, 70), Raw(BoxB, 70)>> }

(* How the work on one crop (or the one call of the other modes) ends: the  *)
(* detections appended so far, and whether an exception ended it.           *)
CropOutcomes == [found : CallResults, raised : BOOLEAN]

(* A call on a processor that is None raises before anything is found. *)
NoProcessor == [found |-> <<>>, raised |-> TRUE]

(* exemplar_crops: one outcome per crop. *)
CropLists == UNION {[1..n -> CropOutcomes] : n \in 1..MaxCrops}

(* box = [int(b * inv_scale) for b in box.tolist()] *)
ScaleBox(box, scale) == [k \in 1..4 |-> ScaleBack(box[k], scale)]

(* all_detections.append({...}) for each detection found for one crop. *)
AppendFound(all, found, crop, scale) ==
    all \o [k \in 1..Len(found) |->
               [bbox |-> ScaleBox(found[k].bbox, scale),
                confidence |-> found[k].confidence,
                crop |-> crop, src |-> Len(all) + k]]

(* for i, crop_b64 in enumerate(request.exemplar_crops): try ... except:    *)
(* continue                                                                 *)
RECURSIVE PoolFrom(_, _, _, _)
PoolFrom(crops, i, scale, all) ==
    IF i > Len(crops) THEN all
    ELSE PoolFrom(crops, i + 1, scale,
                  AppendFound(all, crops[i].found, i, scale))

(* Variant: the loop ends at the first crop that raises. *)
PoolCrops_StopAtFailure(crops, scale) ==
    LET bad == {i \in 1..Len(crops) : crops[i].raised}
        stop == IF bad = {} THEN Len(crops)
                ELSE CHOOSE i \in bad : \A j \in bad : i <= j
    IN  PoolFrom(SubSeq(crops, 1, stop), 1, scale, <<>>)
(* all_detections after the loop over the crops. *)
PoolCrops(crops, scale) == PoolFrom(crops, 1, scale, <<>>)

(* Variant: the pooled detections are returned as they are. *)
PooledDetections_All(all_detections) == all_detections
(* detections = deduplicate_detections(all_detections) *)
PooledDetections(all_detections) ==
    deduplicate_detections(all_detections, DefaultIouThreshold)

(* The outcomes to consider for the one call of the boxes and text modes. *)
CallChoices(mode) ==
    IF mode \in {"boxes", "text"} THEN CropOutcomes
    ELSE {[found |-> <<>>, raised |-> FALSE]}

(* POST /segment, when get_model returns and the target image decodes. *)
SegmentRequest ==
    /\ Quiet
    /\ \E crops \in {<<>>} \cup CropLists,
          has_boxes \in BOOLEAN, has_class \in BOOLEAN, target \in ImageIds :
       \E out \in CallChoices(SegmentMode(crops # <<>>, has_boxes, has_class)) :
           LET g == get_model(seg, "ok")
               mode == SegmentMode(crops # <<>>, has_boxes, has_class)
               scale_factor == resize_image_if_needed(ImageMaxDim(target),
                                                      SegmentMaxSize)
               done == IF g.seg.processor THEN crops
                       ELSE [i \in 1..Len(crops) |-> NoProcessor]
               call == IF g.seg.processor THEN out ELSE NoProcessor
               pooled == IF mode = "exemplar_crops"
                         THEN PoolCrops(done, scale_factor)
                         ELSE AppendFound(<<>>, call.found, 0, scale_factor)
               status == IF mode = "exemplar_crops" THEN 200
                         ELSE IF mode = "unknown" THEN 400
                         ELSE IF call.raised THEN 500 ELSE 200
               detections == IF status # 200 THEN <<>>
                             ELSE IF mode = "exemplar_crops"
                             THEN PooledDetections(pooled)
                             ELSE pooled
           IN  /\ seg' = g.seg
               /\ last' = [Response("segment", target, status) EXCEPT
                              !.fast = ~g.built,
                              !.built = IF g.built THEN {"segment"} ELSE {},
                              !.mode = mode,
                              !.scale = scale_factor]
                          @@ [crops |-> done, has_boxes |-> has_boxes,
                              has_class |-> has_class, pooled |-> pooled,
                              detections |-> detections,
                              count |-> Len(detections)]
               /\ UNCHANGED <<predictor, current_model, current_model_id, req>>

SegmentNext ==
    \/ Deliver
    \/ SegmentUnavailable
    \/ SegmentInvalidImage
    \/ SegmentRequest

SegmentSpec == Init /\ [][SegmentNext]_vars

(* ------------------------------- predict.predict, from mask to response *)

(* The end of POST /api/v1/predict in detail: predictor.predict has         *)
(* returned, and the handler derives the polygon and the bbox from the mask,*)
(* maps them back and answers. A mask is the set of its foreground pixels   *)
(* <<x, y>> (column, row) in a small array.                                 *)
MaskWidth == 3
MaskHeight == 2

MaskPixels == (0..(MaskWidth - 1)) \X (0..(MaskHeight - 1))

(* An Optional[List[...]] that is None. *)
NoList == <<>>

SetMin(S) == CHOOSE a \in S : \A b \in S : a <= b
SetMax(S) == CHOOSE a \in S : \A b \in S : a >= b

(* mask_utils.mask_to_bbox(mask): the first and last row and column that    *)
(* hold a foreground pixel, or None.                                        *)
mask_to_bbox(mask) ==
    LET rows == {px[2] : px \in mask}
        cols == {px[1] : px \in mask}
    IN  IF rows = {} \/ cols = {} THEN NoList
        ELSE <<SetMin(cols), SetMin(rows), SetMax(cols), SetMax(rows)>>

(* What cv2 can make of the mask for mask_to_polygon: without a foreground  *)
(* pixel there is no contour; otherwise a contour of at least min_area that *)
(* keeps three points may or may not exist.                                 *)
ContourChoices(mask) == IF mask = {} THEN {FALSE} ELSE BOOLEAN

(* mask_utils.mask_to_polygon(mask, simplify_tolerance): whether a polygon  *)
(* (rather than None) is returned.                                          *)
mask_to_polygon(mask, contour_ok) == mask # {} /\ contour_ok

(* What predictor.predict hands to the handler: None, or the best mask. *)
PredictResults ==
    {[mask_none |-> TRUE, mask |-> {}]}
    \cup [mask_none : {FALSE}, mask : SUBSET MaskPixels]

(* The scale factors of images at, just above and well above max_dimension. *)
SampleScales == {ComputeScaleFactor(d, MaxDimension) : d \in SampleDims}

MaskInit ==
    /\ ScaleIdle
    /\ \E r \in PredictResults, scale \in SampleScales :
           last = [op |-> "mask", mask_none |-> r.mask_none, mask |-> r.mask,
                   scale |-> scale, status |-> None, success |-> FALSE,
                   polygon |-> FALSE, bbox |-> NoList]

(* predict.predict from `if mask is None` to the response. *)
PredictRespond ==
    /\ last.op = "mask"
    /\ \E contour_ok \in ContourChoices(last.mask) :
           LET polygon == mask_to_polygon(last.mask, contour_ok)
               bbox == mask_to_bbox(last.mask)
           IN  last' = IF last.mask_none
                       THEN [last EXCEPT !.op = "response", !.status = 500]
                       ELSE [last EXCEPT
                               !.op = "response", !.status = 200,
                               !.success = TRUE,
                               !.polygon = polygon,
                               !.bbox = IF last.scale # ScaleOne /\ bbox # NoList
                                        THEN ScaleBox(bbox, last.scale)
                                        ELSE bbox]
    /\ UNCHANGED <<predictor, current_model, current_model_id, seg, req>>

MaskNext == PredictRespond

MaskSpec == MaskInit /\ [][MaskNext]_vars

(* ------------------------------------- predict.predict, request by request *)

(* One POST /api/v1/predict at a time, followed from its arrival to its     *)
(* response, with the SamGeo3 constructions (loads) and the model calls     *)
(* (calls) it makes counted, while other clients' requests unload the model *)
(* between its steps. `last` is the record of the followed request from its *)
(* first step on; req holds it while it is suspended in fetch_image.        *)
RequestInit ==
    /\ ScaleIdle
    /\ last = [NoResponse EXCEPT !.op = "idle"] @@ [loads |-> 0, calls |-> 0]

(* The record with the model call of the tail counted. *)
CountCall(r) == [r EXCEPT !.calls = @ + (IF r.called THEN 1 ELSE 0)]

(* predict.predict up to `await fetch_image`, or to the response when it    *)
(* does not get there.                                                      *)
RequestBegin ==
    /\ last.op \in {"idle", "predict"}
    /\ \E image_id \in ImageIds, lo \in LoadChoices(predictor) :
        LET ld == EnsureLoaded(predictor, lo)
            base == [Response("predict", image_id, 200) EXCEPT
                       !.built = IF ld.built THEN {"sam3"} ELSE {},
                       !.load_failed = ~ld.ret]
                    @@ [loads |-> IF ld.tried THEN 1 ELSE 0, calls |-> 0]
        IN  /\ predictor' = ld.p
            /\ IF ~ld.ret
               THEN /\ last' = [base EXCEPT
                                  !.status = 503, !.success = FALSE,
                                  !.detail = "Failed to load SAM3 model"]
                    /\ UNCHANGED req
               ELSE IF ld.p.image_id # image_id
               THEN /\ req' = Suspend("predict", image_id)
                    /\ last' = [base EXCEPT !.op = "predict_fetch",
                                            !.status = None,
                                            !.success = FALSE]
               ELSE /\ \E call_ok \in BOOLEAN :
                          last' = CountCall(
                                      PredictTail(ld.p, get_scale_factor(ld.p),
                                                  call_ok,
                                                  [base EXCEPT !.fast = TRUE]))
                    /\ UNCHANGED req
            /\ UNCHANGED <<current_model, current_model_id, seg>>

(* health.unload_model or yolo.ensure_sam3_unloaded, run for another client *)
(* while the followed request is suspended.                                 *)
OtherUnload ==
    /\ last.op = "predict_fetch"
    /\ predictor.model_loaded
    /\ \E ok \in UnloadChoices(predictor.model_loaded) :
           predictor' = SAM3Predictor_unload_model(predictor, ok).p
    /\ UNCHANGED <<current_model, current_model_id, seg, req, last>>

(* predict.predict when fetch_image returns None: 400. *)
RequestFetchFailed ==
    /\ last.op = "predict_fetch"
    /\ req[<<"predict", last.arg>>] > 0
    /\ req' = ResumeReq("predict", last.arg)
    /\ last' = [last EXCEPT !.op = "predict", !.status = 400,
                            !.detail = "Failed to fetch image from URL"]
    /\ UNCHANGED <<predictor, current_model, current_model_id, seg>>

(* predict.predict from the return of fetch_image with the bytes on. *)
RequestResume ==
    /\ last.op = "predict_fetch"
    /\ req[<<"predict", last.arg>>] > 0
    /\ \E lo \in LoadChoices(predictor) :
       \E io \in ImageChoices(predictor, last.arg, lo) :
        LET e == SAM3Predictor_set_image_from_bytes(predictor, last.arg, lo, io)
            base == [last EXCEPT
                       !.op = "predict",
                       !.status = 200,
                       !.ensured = e.how,
                       !.built = @ \cup (IF e.built THEN {"sam3"} ELSE {}),
                       !.decoded = e.decoded,
                       !.primed = e.primed,
                       !.scale = e.scale,
                       !.load_failed = e.load_failed,
                       !.loads = @ + (IF e.tried THEN 1 ELSE 0)]
        IN  /\ req' = ResumeReq("predict", last.arg)
            /\ predictor' = e.p
            /\ IF ~e.success
               THEN last' = [base EXCEPT
                               !.status = 500, !.success = FALSE,
                               !.detail = "Failed to set image for segmentation"]
               ELSE \E call_ok \in BOOLEAN :
                        last' = CountCall(PredictTail(e.p, e.scale, call_ok,
                                                      base))
            /\ UNCHANGED <<current_model, current_model_id, seg>>

RequestNext ==
    \/ RequestBegin
    \/ OtherUnload
    \/ RequestFetchFailed
    \/ RequestResume

RequestSpec == RequestInit /\ [][RequestNext]_vars

(* ------------------------------------------------ the sam3-trigger Lambda *)

(* infrastructure/lambda/sam3-trigger/handler.py is a program of its own:   *)
(* lambda_handler runs once per S3 notification and once per scheduled      *)
(* check. Its world is the bucket, the SQS queue and the GPU instance; it   *)
(* is kept in `last`, with the response of the invocation that just ran,    *)
(* while the inference service stays as constructed.                        *)
NumUploads == 2
MaxRecords == 2

(* MIN_IMAGES_TO_START = int(os.environ.get('MIN_IMAGES_TO_START', '10')) *)
DefaultMinImages == 10

(* The values MIN_IMAGES_TO_START is configured with. *)
ThresholdChoices == {1, 2, DefaultMinImages}

(* An object key, split at its '/' and at the extension: dirs are the       *)
(* components before the file name. Uploads 1..NumUploads are images under  *)
(* incoming/, with and without a project folder; the other two keys are a   *)
(* text file and an image outside incoming/.                                *)
UploadKeys ==
    {[dirs |-> IF i % 2 = 1 THEN <<"incoming", "farm">> ELSE <<"incoming">>,
      stem |-> i,
      ext |-> IF i % 2 = 1 THEN ".tif" ELSE ".JPG"] : i \in 1..NumUploads}
OtherKeys ==
    {[dirs |-> <<"incoming", "farm">>, stem |-> 0, ext |-> ".txt"],
     [dirs |-> <<"processed", "farm">>, stem |-> 0, ext |-> ".tif"]}
SampleKeys == UploadKeys \cup OtherKeys

(* key.lower(), for the extensions used here. *)
Lower(ext) ==
    IF ext = ".JPG" THEN ".jpg" ELSE IF ext = ".TIF" THEN ".tif" ELSE ext

(* handler.is_valid_image(key) *)
is_valid_image(key) ==
    Lower(key.ext) \in {".tif", ".tiff", ".jpg", ".jpeg", ".png"}

(* key.startswith('incoming/') *)
InIncoming(key) == Len(key.dirs) >= 1 /\ key.dirs[1] = "incoming"

(* handler.get_instance_state(instance_id): 'unknown' when the call raises. *)
get_instance_state(instance, ok) == IF ok THEN instance ELSE "unknown"

(* handler.get_queue_depth(): 0 when the call raises. *)
get_queue_depth(queue, ok) == IF ok THEN Cardinality(queue) ELSE 0

(* handler.start_instance(instance_id): the instance afterwards, the        *)
(* returned bool, and whether ec2.start_instances was called and returned.  *)
start_instance(instance, state_ok, start_ok) ==
    LET state == get_instance_state(instance, state_ok)
    IN  IF state = "stopped"
        THEN IF start_ok
             THEN [instance |-> "pending", ret |-> TRUE, started |-> TRUE]
             ELSE [instance |-> instance, ret |-> FALSE, started |-> FALSE]
        ELSE IF state \in {"pending", "running"}
        THEN [instance |-> instance, ret |-> TRUE, started |-> FALSE]
        ELSE [instance |-> instance, ret |-> FALSE, started |-> FALSE]

(* The message queue_processing_job builds for a key. *)
JobMessage(key) ==
    [s3_key |-> key,
     project_name |-> IF Len(key.dirs) + 1 > 2 THEN key.dirs[2] ELSE "default",
     class_name |-> "sapling"]

(* handler.queue_processing_job(s3_key, bucket): the queue afterwards and   *)
(* the returned bool; False when sqs.send_message raises.                   *)
queue_processing_job(queue, key, send_ok) ==
    IF send_ok
    THEN [queue |-> queue \cup {JobMessage(key)}, ret |-> TRUE]
    ELSE [queue |-> queue, ret |-> FALSE]

(* lambda_handler: the records of an event that reach queue_processing_job. *)
RecordsToQueue(records) ==
    {key \in records : is_valid_image(key) /\ InIncoming(key)}

(* lambda_handler: the records of the loop whose job was queued. *)
QueuedRecords(records, sends) ==
    {key \in RecordsToQueue(records) :
         queue_processing_job({}, key, sends[key]).ret}

(* Variant: the scheduled check waits for the threshold as well. *)
StartOnCheck_AtThreshold(queue_depth, instance_state, min_images) ==
    queue_depth >= min_images /\ instance_state = "stopped"
(* check_and_start_gpu_if_needed:                                           *)
(* if queue_depth > 0 and instance_state == 'stopped'                       *)
StartOnCheck(queue_depth, instance_state, min_images) ==
    queue_depth > 0 /\ instance_state = "stopped"

(* lambda_handler:                                                          *)
(* if queue_depth >= MIN_IMAGES_TO_START or instance_state == 'running'     *)
StartOnUpload(queue_depth, instance_state, min_images) ==
    queue_depth >= min_images \/ instance_state = "running"

(* Nothing uploaded, the queue empty, the instance stopped. *)
TriggerInit ==
    /\ ScaleIdle
    /\ \E min_images \in ThresholdChoices :
           last = [op |-> "none",
                   min_images |-> min_images,
                   created |-> {},      \* the keys put into the bucket
                   pending |-> {},      \* those whose notification is still to come
                   queue |-> {},        \* the messages in the queue
                   sent |-> {},         \* every message ever sent
                   instance |-> "stopped",
                   started |-> FALSE,   \* the invocation started the instance
                   status |-> None, queued |-> 0, errors |-> 0]

(* The world after a step that is not an invocation. *)
World(r) ==
    [r EXCEPT !.op = "none", !.started = FALSE, !.status = None,
              !.queued = 0, !.errors = 0]

(* A client puts an object into the bucket; S3 will notify the function. *)
Upload ==
    /\ \E key \in SampleKeys \ last.created :
           last' = [World(last) EXCEPT !.created = @ \cup {key},
                                       !.pending = @ \cup {key}]
    /\ UNCHANGED <<predictor, current_model, current_model_id, seg, req>>

(* The event records an invocation can get: some of the pending keys. *)
RecordSets(pending) ==
    {records \in SUBSET pending :
         records # {} /\ Cardinality(records) <= MaxRecords}

(* lambda_handler(event, context) for an S3 notification with the given     *)
(* records; sends[key] is whether sqs.send_message works for the key, and   *)
(* the other parameters whether the AWS calls made afterwards answer.       *)
S3EventWith(records, sends, depth_ok, state_ok, state_ok2, start_ok) ==
    LET queued == QueuedRecords(records, sends)
        queue == last.queue
                 \cup UNION {queue_processing_job(last.queue, key,
                                                  sends[key]).queue :
                                 key \in RecordsToQueue(records)}
        queued_count == Cardinality(queued)
        queue_depth == get_queue_depth(queue, depth_ok)
        instance_state == get_instance_state(last.instance, state_ok)
        s == IF queued_count > 0
                  /\ StartOnUpload(queue_depth, instance_state, last.min_images)
             THEN start_instance(last.instance, state_ok2, start_ok)
             ELSE [instance |-> last.instance, ret |-> FALSE, started |-> FALSE]
    IN  /\ last' = [last EXCEPT
                      !.op = "s3",
                      !.pending = @ \ records,
                      !.queue = queue,
                      !.sent = @ \cup (queue \ last.queue),
                      !.instance = s.instance,
                      !.started = s.started,
                      !.status = 200,
                      !.queued = queued_count,
                      !.errors = Cardinality(RecordsToQueue(records) \ queued)]
        /\ UNCHANGED <<predictor, current_model, current_model_id, seg, req>>

S3Event ==
    \E records \in RecordSets(last.pending) :
    \E sends \in [records -> BOOLEAN] :
    \E depth_ok \in BOOLEAN, state_ok \in BOOLEAN, state_ok2 \in BOOLEAN,
       start_ok \in BOOLEAN :
        S3EventWith(records, sends, depth_ok, state_ok, state_ok2, start_ok)

(* lambda_handler(event, context) for the scheduled check:                  *)
(* check_and_start_gpu_if_needed.                                           *)
ScheduledCheckWith(depth_ok, state_ok, state_ok2, start_ok) ==
    LET queue_depth == get_queue_depth(last.queue, depth_ok)
        instance_state == get_instance_state(last.instance, state_ok)
        s == IF StartOnCheck(queue_depth, instance_state, last.min_images)
             THEN start_instance(last.instance, state_ok2, start_ok)
             ELSE [instance |-> last.instance, ret |-> FALSE, started |-> FALSE]
    IN  /\ last' = [last EXCEPT !.op = "scheduled-check",
                                !.instance = s.instance,
                                !.started = s.started,
                                !.status = 200,
                                !.queued = 0,
                                !.errors = 0]
        /\ UNCHANGED <<predictor, current_model, current_model_id, seg, req>>

ScheduledCheck ==
    \E depth_ok \in BOOLEAN, state_ok \in BOOLEAN, state_ok2 \in BOOLEAN,
       start_ok \in BOOLEAN :
        ScheduledCheckWith(depth_ok, state_ok, state_ok2, start_ok)

(* The scheduled check when every AWS call it makes answers. *)
ScheduledCheckWorks == ScheduledCheckWith(TRUE, TRUE, TRUE, TRUE)

(* The instance comes up after a start. *)
InstanceBoots ==
    /\ last.instance = "pending"
    /\ last' = [World(last) EXCEPT !.instance = "running"]
    /\ UNCHANGED <<predictor, current_model, current_model_id, seg, req>>

(* The processor on the running instance takes a message off the queue. *)
Consume ==
    /\ last.instance = "running"
    /\ \E m \in last.queue :
           last' = [World(last) EXCEPT !.queue = @ \ {m}]
    /\ UNCHANGED <<predictor, current_model, current_model_id, seg, req>>

(* The instance shuts down, idle or crashed, whatever is in the queue. *)
InstanceStops ==
    /\ last.instance = "running"
    /\ last' = [World(last) EXCEPT !.instance = "stopping"]
    /\ UNCHANGED <<predictor, current_model, current_model_id, seg, req>>

InstanceStopped ==
    /\ last.instance = "stopping"
    /\ last' = [World(last) EXCEPT !.instance = "stopped"]
    /\ UNCHANGED <<predictor, current_model, current_model_id, seg, req>>

TriggerNext ==
    \/ Upload
    \/ S3Event
    \/ ScheduledCheck
    \/ InstanceBoots
    \/ Consume
    \/ InstanceStops
    \/ InstanceStopped

TriggerSpec == TriggerInit /\ [][TriggerNext]_vars

(* S3 delivers the notification of every object that was created, the       *)
(* scheduled rule keeps firing and the AWS calls of a check do not fail for *)
(* ever, a started instance comes up, and a running instance works on the   *)
(* queue.                                                                   *)
TriggerFairSpec ==
    /\ TriggerSpec
    /\ WF_vars(S3Event)
    /\ WF_vars(ScheduledCheckWorks)
    /\ WF_vars(InstanceBoots)
    /\ WF_vars(Consume)

(* --------------------------------------------------------------- session *)

(* SAM3Predictor.set_image(image_path, image_id) for the file of asset      *)
(* image_id, with the outcomes of the load it may need (lo) and of the      *)
(* model's set_image (ok). The file is handed to the model as it is, so the *)
(* model's coordinates are the image's own. Result: the predictor after,    *)
(* the returned bool, how the call ended, and whether the model's set_image *)
(* was called (primed).                                                     *)
SAM3Predictor_set_image(p, image_id, lo, ok) ==
    LET ld == IF ~p.model_loaded
              THEN SAM3Predictor_load_model(p, lo)
              ELSE [p |-> p, ret |-> TRUE, tried |-> FALSE, built |-> FALSE]
        q == ld.p
    IN  IF ~ld.ret
        THEN [p |-> q, success |-> FALSE, how |-> "failed", primed |-> FALSE]
        ELSE IF p.image_id = image_id
        THEN [p |-> q, success |-> TRUE, how |-> "hit", primed |-> FALSE]
        ELSE IF ~ok
        THEN [p |-> q, success |-> FALSE, how |-> "failed", primed |-> TRUE]
        ELSE [p |-> [q EXCEPT !.sam3_image = image_id, !.image_id = image_id,
                              !.image_path = image_id],
              success |-> TRUE, how |-> "stored", primed |-> TRUE]

(* The predictor alone, driven by calls of set_image and                    *)
(* set_image_from_bytes in any order. `last` is the call that just returned *)
(* together with what the model holds: resident_scale is the scale at which *)
(* the resident image was handed to the model, resident_via the method that *)
(* handed it over.                                                          *)
SessionInit ==
    /\ predictor = PredictorInit
    /\ current_model = None
    /\ current_model_id = None
    /\ seg = SegInit
    /\ req = [k \in ReqKinds |-> 0]
    /\ last = [op |-> "none", arg |-> None, success |-> FALSE,
               scale |-> ScaleOne, how |-> "none",
               decoded |-> FALSE, primed |-> FALSE,
               resident_scale |-> ScaleOne, resident_via |-> "none"]

SessionSetImage ==
    /\ \E image_id \in ImageIds, lo \in LoadChoices(predictor), ok \in BOOLEAN :
        LET e == SAM3Predictor_set_image(predictor, image_id, lo, ok)
        IN  /\ predictor' = e.p
            /\ last' = [last EXCEPT
                   !.op = "set_image", !.arg = image_id,
                   !.success = e.success, !.scale = ScaleOne, !.how = e.how,
                   !.decoded = FALSE, !.primed = e.primed,
                   !.resident_scale = IF e.how = "stored" THEN ScaleOne ELSE @,
                   !.resident_via = IF e.how = "stored" THEN "path" ELSE @]
    /\ UNCHANGED <<current_model, current_model_id, seg, req>>

SessionSetImageFromBytes ==
    /\ \E image_id \in ImageIds, lo \in LoadChoices(predictor),
          io \in ImageOutcomes :
        LET e == SAM3Predictor_set_image_from_bytes(predictor, image_id, lo, io)
        IN  /\ predictor' = e.p
            /\ last' = [last EXCEPT
                   !.op = "set_image_from_bytes", !.arg = image_id,
                   !.success = e.success, !.scale = e.scale, !.how = e.how,
                   !.decoded = e.decoded, !.primed = e.primed,
                   !.resident_scale =
                       IF e.how = "stored"
                       THEN <<Min(ImageMaxDim(image_id), MaxDimension),
                              ImageMaxDim(image_id)>>
                       ELSE @,
                   !.resident_via = IF e.how = "stored" THEN "bytes" ELSE @]
    /\ UNCHANGED <<current_model, current_model_id, seg, req>>

(* SAM3Predictor.get_scale_factor is called. *)
SessionGetScaleFactor ==
    /\ last' = [last EXCEPT
           !.op = "get_scale_factor", !.arg = None, !.success = TRUE,
           !.scale = get_scale_factor(predictor), !.how = "read",
           !.decoded = FALSE, !.primed = FALSE]
    /\ UNCHANGED <<predictor, current_model, current_model_id, seg, req>>

SessionNext ==
    \/ SessionSetImage
    \/ SessionSetImageFromBytes
    \/ SessionGetScaleFactor

SessionSpec == SessionInit /\ [][SessionNext]_vars

(* ------------------------------------------------------------ properties *)

(* The segmentation family is loaded: the SAM3 predictor or the             *)
(* concept-segment model.                                                   *)
SegmentationLoaded == predictor.model_loaded \/ seg.model
DetectorLoaded == current_model # None

(* The steps that acquire a family, and whether the acquire succeeded. *)
AcquiredDetector ==
    /\ last.op \in {"yolo_load", "detect"}
    /\ last.model_id # None
AcquiredSegmentation ==
    \/ last.op = "warmup" /\ last.success
    \/ last.op \in {"predict_fetch", "preload_fetch"}
    \/ last.op \in {"predict", "preload"} /\ last.status # 503
           /\ (last.status = 400 => "sam3" \in last.built)
    \/ last.op = "segment" /\ last.status # 503
    \/ last.op = "segment_health" /\ last.success

(* C1: in every reachable state the segmentation model (the SAM3 predictor  *)
(* or the concept-segment model) and the YOLO detector are never both       *)
(* loaded.                                                                  *)
C1_NeverBothLoaded == ~(SegmentationLoaded /\ DetectorLoaded)

(* C2: an acquire of the detector leaves the segmentation family unloaded,  *)
(* and an acquire of the segmentation family leaves the detector unloaded.  *)
C2_AcquireEvictsOther ==
    /\ AcquiredDetector => ~SegmentationLoaded
    /\ AcquiredSegmentation => ~DetectorLoaded

(* C3: a load request for a family that is already loaded (for the         *)
(* detector: with the requested identifier) succeeds at once and changes    *)
(* nothing: no family is unloaded, no weights are constructed, and the      *)
(* loaded flags, the identifier and the recorded load latency keep their    *)
(* values.                                                                  *)
C3_LoadOfLoadedChangesNothing ==
    [][ /\ (last'.op = "yolo_load" /\ current_model # None
               /\ current_model_id = last'.arg)
           => /\ last'.status = 200
              /\ last'.built = {}
              /\ last'.model_id = current_model_id
              /\ UNCHANGED <<predictor, current_model, current_model_id, seg>>
        /\ (last'.op = "warmup" /\ predictor.model_loaded)
           => /\ last'.success
              /\ last'.built = {}
              /\ UNCHANGED <<predictor, current_model, current_model_id, seg>>
        /\ (last'.op \in {"predict", "predict_fetch", "preload", "preload_fetch"}
               /\ predictor.model_loaded)
           => /\ last'.status # 503
              /\ last'.built = {}
              /\ predictor'.model_loaded
              /\ predictor'.sam3 = predictor.sam3
              /\ predictor'.load_time_ms = predictor.load_time_ms
              /\ UNCHANGED <<current_model, current_model_id, seg>>
        /\ (last'.op \in {"segment", "segment_health"} /\ seg.model)
           => /\ last'.status # 503
              /\ last'.built = {}
              /\ UNCHANGED <<predictor, current_model, current_model_id, seg>>
      ]_vars

(* A load of the resident weight set answered while the segmentation model  *)
(* is loaded too: nothing was unloaded.                                     *)
C3_Witness ==
    /\ last.op = "yolo_load"
    /\ last.fast
    /\ last.pre.yolo = last.arg
    /\ last.pre.sam3
    /\ predictor.model_loaded
    /\ current_model = last.arg

(* C4: when weights are constructed for the detector no other weight set is *)
(* resident (the previous one was unloaded first), the resident weights are *)
(* the requested ones, and the identifier status reports is always the      *)
(* identifier of the resident weights.                                      *)
C4_OneResidentWeightSet ==
    /\ current_model_id = current_model
    /\ "yolo" \in last.built
       => /\ last.prior = None
          /\ current_model = last.arg
          /\ last.status = 200 => last.model_id = last.arg
    /\ last.op = "yolo_status"
       => /\ last.model_id = current_model
          /\ last.model_loaded = (current_model # None)

(* Weight set B was loaded while a different weight set A was resident. *)
C4_Witness ==
    /\ last.op = "yolo_load"
    /\ "yolo" \in last.built
    /\ last.pre.yolo # None
    /\ last.pre.yolo # last.arg
    /\ current_model = last.arg

(* C5: after a failed load the family's handle is fully unloaded, and no    *)
(* request finds a partially initialised model (a model without its         *)
(* processor).                                                              *)
C5_FailedLoadLeavesUnloaded ==
    /\ (last.op = "warmup" /\ ~last.success)
       => (~predictor.model_loaded /\ ~predictor.sam3)
    /\ (last.op = "yolo_load" /\ last.status = 500)
       => (current_model = None /\ current_model_id = None)
    /\ ((last.op = "segment" /\ last.status = 503)
           \/ (last.op = "segment_health" /\ ~last.success))
       => (~seg.model /\ ~seg.processor)
    /\ seg.model => seg.processor

(* The terminal states of a family's handle. *)
PredictorLoadedState == predictor.model_loaded /\ predictor.sam3
PredictorUnloadedState == ~predictor.model_loaded /\ ~predictor.sam3
DetectorLoadedState == current_model # None /\ current_model_id # None
DetectorUnloadedState == current_model = None /\ current_model_id = None
SegmentLoadedState == seg.model /\ seg.processor
SegmentUnloadedState == ~seg.model /\ ~seg.processor

(* C6: every load attempt has ended with the family Loaded (on success) or  *)
(* Unloaded (on failure): no family is left in between.                     *)
C6_LoadEndsLoadedOrUnloaded ==
    /\ PredictorLoadedState \/ PredictorUnloadedState
    /\ DetectorLoadedState \/ DetectorUnloadedState
    /\ SegmentLoadedState \/ SegmentUnloadedState
    /\ "sam3" \in last.built => PredictorLoadedState
    /\ "yolo" \in last.built => DetectorLoadedState
    /\ ("segment" \in last.built /\ last.status # 503 /\ last.success)
       => SegmentLoadedState
    /\ (last.op = "segment" /\ last.status = 503) => SegmentUnloadedState

(* C7: unloading the detector succeeds, leaves the detector unloaded and    *)
(* the predictor and the concept-segment model as they were, and changes    *)
(* nothing at all when the detector was already unloaded; unloading the     *)
(* segmentation models leaves the detector as it was and changes nothing    *)
(* of a model that was already unloaded.                                    *)
C7_UnloadOfUnloadedChangesNothing ==
    [][ /\ last'.op = "yolo_unload"
           => /\ last'.status = 200
              /\ current_model' = None
              /\ UNCHANGED <<predictor, seg>>
              /\ current_model = None
                 => UNCHANGED <<current_model, current_model_id>>
        /\ last'.op = "unload_all"
           => /\ last'.status = 200
              /\ UNCHANGED <<current_model, current_model_id>>
              /\ ~predictor.model_loaded
                 => (last'.predictor_ok /\ UNCHANGED predictor)
              /\ ~seg.model
                 => (last'.segment_ok /\ UNCHANGED seg)
      ]_vars

(* The detector was unloaded while already unloaded, with the predictor     *)
(* loaded before and after.                                                 *)
C7_Witness ==
    /\ last.op = "yolo_unload"
    /\ last.status = 200
    /\ last.pre.yolo = None
    /\ last.pre.sam3
    /\ predictor.model_loaded

(* C8: /unload reports the predictor's and the concept-segment model's      *)
(* unload each by its own result, each result tells whether that model is   *)
(* now unloaded, and the overall success is true exactly when both are.     *)
C8_UnloadAllReportsEach ==
    last.op = "unload_all"
    => /\ last.success <=> (last.predictor_ok /\ last.segment_ok)
       /\ last.predictor_ok <=> ~predictor.model_loaded
       /\ last.segment_ok <=> ~seg.model

(* The predictor's unload failed and the concept-segment model, loaded      *)
(* before, was unloaded all the same: a partial failure.                    *)
C8_Witness ==
    /\ last.op = "unload_all"
    /\ ~last.predictor_ok
    /\ last.segment_ok
    /\ ~last.success
    /\ last.pre.segment
    /\ ~seg.model
    /\ predictor.model_loaded

C10_RepeatedEnsureIsCacheHit ==
    [][ /\ last'.ensured \in {"hit", "stored"}
           => last'.scale = predictor'.scale_factor
        /\ (last'.ensured # "no" /\ predictor.image_id = last'.arg)
           => /\ ~last'.decoded
              /\ ~last'.primed
              /\ predictor'.image_id = predictor.image_id
              /\ predictor'.image_path = predictor.image_path
              /\ predictor'.scale_factor = predictor.scale_factor
              /\ predictor.model_loaded => last'.ensured = "hit"
              /\ last'.ensured = "hit"
                 => last'.scale = predictor.scale_factor
        /\ (last'.op = "predict" /\ last'.fast /\ last'.ensured = "no")
           => /\ predictor.image_id = last'.arg
              /\ ~last'.decoded
              /\ ~last'.primed
              /\ last'.scale = predictor.scale_factor
              /\ predictor'.scale_factor = predictor.scale_factor
      ]_vars

(* set_image_from_bytes was called for the image already resident, a        *)
(* downsized one.                                                           *)
C10_Witness ==
    /\ last.ensured = "hit"
    /\ last.pre.image = last.arg
    /\ last.scale # ScaleOne

(* C11: requests are serialized from the point they acquire the model or    *)
(* ensure their image to the return of their model call: a request that     *)
(* acquired the predictor's model and waits for its image still finds the   *)
(* model loaded, and every predict response is computed on the image the    *)
(* request named.                                                           *)
C11_NoEvictionMidRequest ==
    /\ InFlight > 0 => predictor.model_loaded
    /\ (last.op = "predict" /\ last.status = 200) => last.on_image = last.arg

(* o is the pixel of the original image that holds the point c of the      *)
(* resized image, for an image of the given size resized by num / den.      *)
IsOriginalPixel(o, c, num, den, size) ==
    /\ 0 <= o
    /\ o < size
    /\ o * num <= c * den
    /\ c * den < (o + 1) * num

(* C12: the geometry returned by predict and by segment is in the           *)
(* coordinates of the original image: the scale factor the handler applies  *)
(* is the one of the image the mask was computed on, that image is the one  *)
(* the request named, and the returned coordinate is the mask's coordinate  *)
(* taken back through the inverse of that scale factor.                     *)
C12_GeometryInOriginalCoordinates ==
    (last.op \in {"predict", "segment"} /\ last.status = 200
        /\ last.on_image # None)
    => LET dim == ImageMaxDim(last.on_image)
           num == IF dim > MaxDimension THEN MaxDimension ELSE 1
           den == IF dim > MaxDimension THEN dim ELSE 1
       IN  /\ last.on_image = last.arg
           /\ last.scale = <<num, den>>
           /\ IsOriginalPixel(last.bbox, MaskCoord(last.on_image), num, den, dim)

(* predict answered for a downsized image while the session of an image     *)
(* with another scale factor was resident: the returned coordinate lies     *)
(* beyond the resized image.                                                *)
C12_Witness ==
    /\ last.op = "predict"
    /\ last.status = 200
    /\ last.pre.image # None
    /\ last.pre.image # last.arg
    /\ ImageMaxDim(last.pre.image) # ImageMaxDim(last.arg)
    /\ last.scale # ScaleOne
    /\ last.bbox > MaskCoord(last.on_image)

(* C13: the scale factor of a newly cached image is max_dimension over the  *)
(* largest dimension when that exceeds max_dimension and 1.0 otherwise, so  *)
(* it lies in (0, 1]; resize_image_if_needed computes the same.             *)
C13_ScaleFactorValue ==
    last.op \in {"cached", "mapped", "returned"}
    => /\ last.max_dim > MaxDimension
          => last.scale[1] * last.max_dim = MaxDimension * last.scale[2]
       /\ last.max_dim <= MaxDimension => last.scale = ScaleOne
       /\ 0 < last.scale[1]
       /\ last.scale[1] <= last.scale[2]
       /\ last.seg_scale = last.scale

(* An image over max_dimension was cached: its scale factor is below 1. *)
C13_Witness ==
    /\ last.op = "cached"
    /\ last.max_dim > MaxDimension
    /\ last.scale[1] < last.scale[2]
    /\ last.seg_scale[1] < last.seg_scale[2]

(* C14: a coordinate is mapped into the resized image as the integer        *)
(* nearest to x * scaleFactor, and mapped back as the integer nearest to    *)
(* the coordinate divided by scaleFactor.                                   *)
C14_MapsRoundToNearest ==
    /\ last.op \in {"mapped", "returned"}
       => LET d == last.cached * last.scale[2] - last.x * last.scale[1]
          IN  2 * d <= last.scale[2] /\ -2 * d <= last.scale[2]
    /\ last.op = "returned"
       => LET d == last.back * last.scale[1] - last.cached * last.scale[2]
          IN  2 * d <= last.scale[1] /\ -2 * d <= last.scale[1]

Cells(box) == (box[1]..(box[3] - 1)) \X (box[2]..(box[4] - 1))

(* C20: calculate_iou returns 0 when the boxes do not overlap or one of     *)
(* them has non-positive area, and otherwise the area of the intersection   *)
(* divided by the area of the union.                                        *)
C20_IouIsIntersectionOverUnion ==
    last.op = "iou"
    => LET both == Cells(last.box1) \cap Cells(last.box2)
           either == Cells(last.box1) \cup Cells(last.box2)
       IN  IF both = {} \/ BoxArea(last.box1) <= 0 \/ BoxArea(last.box2) <= 0
           THEN last.iou[1] = 0
           ELSE /\ last.iou[2] > 0
                /\ last.iou[1] * Cardinality(either)
                       = Cardinality(both) * last.iou[2]

(* Two different boxes that overlap in part. *)
C20_Witness ==
    /\ last.op = "iou"
    /\ last.iou[1] > 0
    /\ last.iou[1] < last.iou[2]
    /\ BoxArea(last.box1) > BoxArea(last.box2)

(* Detection i comes before detection j in descending confidence, ties in  *)
(* original order.                                                          *)
RanksBefore(dets, i, j) ==
    \/ dets[i].confidence > dets[j].confidence
    \/ dets[i].confidence = dets[j].confidence /\ i < j

(* The IoU of two boxes exceeds the threshold. *)
OverlapsBeyond(box1, box2, thr) ==
    LET iou == calculate_iou(box1, box2)
    IN  iou[1] * thr[2] > thr[1] * iou[2]

(* C17: deduplicate_detections returns input detections in descending       *)
(* confidence, ties in original order; a detection is dropped exactly when  *)
(* its bbox IoU with a kept detection ranked before it exceeds the          *)
(* threshold; and of two boxes at threshold 0.5 only the higher-confidence  *)
(* one is returned when their IoU is 0.6, both when it is 0.3.              *)
C17_DeduplicateIsGreedy ==
    last.op = "deduplicated"
    => LET dets == last.detections
           kept == last.kept
           thr == last.iou_threshold
           keptSrc == {kept[k].src : k \in 1..Len(kept)}
       IN  /\ \A k \in 1..Len(kept) :
                  /\ kept[k].src \in 1..Len(dets)
                  /\ kept[k] = dets[kept[k].src]
           /\ \A k, l \in 1..Len(kept) :
                  k < l => RanksBefore(dets, kept[k].src, kept[l].src)
           /\ \A i \in 1..Len(dets) :
                  i \in keptSrc
                  <=> ~\E j \in keptSrc :
                          /\ RanksBefore(dets, j, i)
                          /\ OverlapsBeyond(dets[i].bbox, dets[j].bbox, thr)
           /\ (Len(dets) = 2 /\ thr = <<1, 2>>
                  /\ {dets[1].bbox, dets[2].bbox} = {BoxA, BoxB})
              => /\ Len(kept) = 1
                 /\ kept[1].confidence >= dets[1].confidence
                 /\ kept[1].confidence >= dets[2].confidence
           /\ (Len(dets) = 2 /\ thr = <<1, 2>>
                  /\ {dets[1].bbox, dets[2].bbox} = {BoxA, BoxC})
              => Len(kept) = 2

(* Two boxes of IoU 0.6 at threshold 0.5, the lower-confidence one first:   *)
(* only the second is returned.                                             *)
C17_Witness ==
    /\ last.op = "deduplicated"
    /\ Len(last.detections) = 2
    /\ last.iou_threshold = <<1, 2>>
    /\ calculate_iou(last.detections[1].bbox, last.detections[2].bbox) = <<60, 100>>
    /\ last.detections[1].confidence < last.detections[2].confidence
    /\ last.kept = <<last.detections[2]>>

(* C16: the mode of a segment request is chosen by precedence exemplar      *)
(* crops, then boxes, then text: crops select exemplar mode whatever else   *)
(* is supplied, else boxes select box mode, else a class name selects text  *)
(* mode, and a request with none of the three is refused with 400.          *)
C16_ModePrecedence ==
    (last.op = "segment" /\ last.mode # "none")
    => /\ last.crops # <<>> => last.mode = "exemplar_crops"
       /\ (last.crops = <<>> /\ last.has_boxes) => last.mode = "boxes"
       /\ (last.crops = <<>> /\ ~last.has_boxes /\ last.has_class)
          => last.mode = "text"
       /\ (last.crops = <<>> /\ ~last.has_boxes /\ ~last.has_class)
          <=> last.status = 400
       /\ last.status = 400 => (last.detections = <<>> /\ ~last.success)

(* Crops, boxes and a class name were all supplied: exemplar mode. *)
C16_Witness ==
    /\ last.op = "segment"
    /\ last.mode = "exemplar_crops"
    /\ last.status = 200
    /\ last.crops # <<>>
    /\ last.has_boxes
    /\ last.has_class

(* C18: in exemplar mode no two detections of the response have bbox IoU    *)
(* over 0.5, whichever crops produced them.                                 *)
C18_NoOverlapAcrossCrops ==
    (last.op = "segment" /\ last.mode = "exemplar_crops")
    => \A k, l \in 1..Len(last.detections) :
           k # l => ~OverlapsBeyond(last.detections[k].bbox,
                                    last.detections[l].bbox, <<1, 2>>)

(* Two crops each produced a detection, the two overlap by more than 0.5,   *)
(* and one of them is returned.                                             *)
C18_Witness ==
    /\ last.op = "segment"
    /\ last.mode = "exemplar_crops"
    /\ Len(last.pooled) = 2
    /\ last.pooled[1].crop # last.pooled[2].crop
    /\ OverlapsBeyond(last.pooled[1].bbox, last.pooled[2].bbox, <<1, 2>>)
    /\ Len(last.detections) = 1

(* C19: in exemplar mode a crop that raises does not fail the request: the  *)
(* response is a success whose count is the number of its detections, each  *)
(* detection found for any crop is returned or overlaps a returned one by   *)
(* more than 0.5, and when no crop yields a detection the list is empty.    *)
C19_FailedCropIsSkipped ==
    (last.op = "segment" /\ last.mode = "exemplar_crops")
    => /\ last.status = 200
       /\ last.success
       /\ last.count = Len(last.detections)
       /\ \A i \in 1..Len(last.crops) :
          \A k \in 1..Len(last.crops[i].found) :
              \E d \in 1..Len(last.detections) :
                  \/ /\ last.detections[d].crop = i
                     /\ last.detections[d].bbox
                            = ScaleBox(last.crops[i].found[k].bbox, last.scale)
                  \/ OverlapsBeyond(last.detections[d].bbox,
                                    ScaleBox(last.crops[i].found[k].bbox,
                                             last.scale), <<1, 2>>)
       /\ \A d \in 1..Len(last.detections) :
              \E k \in 1..Len(last.crops[last.detections[d].crop].found) :
                  last.detections[d].bbox
                      = ScaleBox(last.crops[last.detections[d].crop].found[k].bbox,
                                 last.scale)
       /\ (\A i \in 1..Len(last.crops) : last.crops[i].found = <<>>)
          => (last.detections = <<>> /\ last.count = 0)

(* The first crop raised and a detection of the second crop is returned. *)
C19_Witness ==
    /\ last.op = "segment"
    /\ last.mode = "exemplar_crops"
    /\ Len(last.crops) = 2
    /\ last.crops[1].raised
    /\ last.crops[1].found = <<>>
    /\ last.count > 0
    /\ last.detections[1].crop = 2

(* Every crop raised: success, with no detection. *)
C19_AllCropsFailed ==
    /\ last.op = "segment"
    /\ last.mode = "exemplar_crops"
    /\ \A i \in 1..Len(last.crops) : last.crops[i].raised
    /\ last.status = 200
    /\ last.count = 0

(* C21: every bbox [x1, y1, x2, y2] a predict response carries has x1 < x2  *)
(* and y1 < y2, whatever the non-empty mask (one pixel wide or high         *)
(* included) and the scale factor.                                          *)
C21_BboxIsProper ==
    (last.op = "response" /\ last.bbox # NoList)
    => (last.bbox[1] < last.bbox[3] /\ last.bbox[2] < last.bbox[4])

(* A mask more than one pixel wide and high on a downsized image gets a     *)
(* proper bbox.                                                             *)
C21_ProperBboxReturned ==
    /\ last.op = "response"
    /\ last.scale # ScaleOne
    /\ last.bbox # NoList
    /\ last.bbox[1] < last.bbox[3]
    /\ last.bbox[2] < last.bbox[4]

(* C22: when the best mask has no foreground pixel the predict request      *)
(* fails: it does not answer with a success.                                *)
C22_EmptyMaskIsAnError ==
    (last.op = "response" /\ ~last.mask_none /\ last.mask = {})
    => (last.status # 200 /\ ~last.success)

(* A mask with a foreground pixel is answered with a success and a bbox. *)
C22_NonEmptyMaskSucceeds ==
    /\ last.op = "response"
    /\ last.mask # {}
    /\ last.status = 200
    /\ last.bbox # NoList

(* A predict request whose load of the model failed answers 503 "Failed to  *)
(* load SAM3 model".                                                        *)
FailedLoadIsNotReady ==
    (last.op = "predict" /\ last.load_failed)
    => (last.status = 503 /\ last.detail = "Failed to load SAM3 model")

(* The mask predictor was only invoked with the model loaded and an image   *)
(* set.                                                                     *)
InvokedOnlyWhenReady ==
    last.called
    => (predictor.model_loaded /\ predictor.sam3 /\ predictor.image_id # None)

(* C23: a predict request fails with the model-not-ready error when the     *)
(* segmentation model cannot be loaded, and the mask predictor is never     *)
(* invoked while the model is not loaded or no image is set.                *)
C23_ModelNotReady == FailedLoadIsNotReady /\ InvokedOnlyWhenReady

(* A model call that raised is answered 500 "Prediction failed: <cause>",   *)
(* the cause being the text of the exception.                               *)
RaisedCallIsReported ==
    (last.op = "predict" /\ last.called /\ ~last.success)
    => /\ last.status = 500
       /\ last.detail = "Prediction failed"
       /\ last.cause = "str(e)"

(* A load or a model call that failed ended the request with an error. *)
FailureEndsRequest ==
    (last.load_failed \/ (last.called /\ ~last.success))
    => (last.op = "predict" /\ last.status \in {500, 503})

(* C24: a model call that raises fails the predict request with a           *)
(* prediction error that carries the cause, and within one request the      *)
(* model load and the model call are each attempted at most once.           *)
C24_NoInternalRetry ==
    /\ RaisedCallIsReported
    /\ last.loads <= 1
    /\ last.calls <= 1

(* An eligible key: a valid image extension, under incoming/. *)
Eligible(key) == is_valid_image(key) /\ InIncoming(key)

(* C25: every eligible image put into the bucket is eventually enqueued at  *)
(* least once, also when a send to the queue fails.                         *)
C25_EligibleImageIsEnqueued ==
    \A key \in SampleKeys :
        (Eligible(key) /\ key \in last.created)
        ~> (\E m \in last.sent : m.s3_key = key)

(* The same as a state predicate: once the notification of an eligible key  *)
(* has been handled, a message for the key has been sent.                   *)
HandledImageIsEnqueued ==
    \A key \in last.created \ last.pending :
        Eligible(key) => \E m \in last.sent : m.s3_key = key

(* C26: the invocation that starts the stopped instance finds at least      *)
(* MIN_IMAGES_TO_START messages in the queue.                               *)
C26_NoStartBelowThreshold ==
    last.started => Cardinality(last.queue) >= last.min_images

SameRatio(a, b) == a[1] * b[2] = b[1] * a[2]

(* C28: after any sequence of set_image and set_image_from_bytes calls,     *)
(* get_scale_factor returns the scale at which the resident image was       *)
(* handed to the model, and so does a cache hit of set_image_from_bytes.    *)
C28_ScaleFactorOfResidentImage ==
    /\ (last.op = "get_scale_factor" /\ predictor.image_id # None)
       => SameRatio(last.scale, last.resident_scale)
    /\ (last.op = "set_image_from_bytes" /\ last.how = "hit")
       => SameRatio(last.scale, last.resident_scale)

(* The same for an image that set_image_from_bytes made resident. *)
BytesSessionScale ==
    (last.resident_via = "bytes"
        /\ (\/ last.op = "get_scale_factor"
            \/ last.op = "set_image_from_bytes" /\ last.how = "hit"))
    => SameRatio(last.scale, last.resident_scale)

(* C29: when set_image_from_bytes fails for a new imageId in a predict      *)
(* request, because the bytes do not decode or the model rejects the image, *)
(* the resident session keeps its id, path and scale factor, and            *)
(* set_image_from_bytes for the previous imageId is still a cache hit.      *)
C29_FailedEnsureKeepsSession ==
    [][(last'.op = "predict" /\ last'.ensured = "failed" /\ last'.decoded)
       => /\ predictor'.image_id = predictor.image_id
          /\ predictor'.image_path = predictor.image_path
          /\ predictor'.scale_factor = predictor.scale_factor
          /\ predictor.image_id # None
             => \A lo \in LoadChoices(predictor'), io \in ImageOutcomes :
                  LET later == SAM3Predictor_set_image_from_bytes(
                                   predictor', predictor.image_id, lo, io)
                  IN  /\ later.how = "hit"
                      /\ later.scale = predictor.scale_factor]_vars

(* A predict request for a new image failed at the model's set_image while  *)
(* another image's session was resident.                                    *)
C29_Witness ==
    /\ last.op = "predict" /\ last.ensured = "failed" /\ last.primed
    /\ predictor.image_id # None
    /\ predictor.image_id # last.arg

(* The same when the bytes did not decode. *)
C29_DecodeFailed ==
    /\ last.op = "predict" /\ last.ensured = "failed"
    /\ last.decoded /\ ~last.primed
    /\ predictor.image_id # None
    /\ predictor.image_id # last.arg

(* C30: a preload that answers success has made the image the resident      *)
(* session, and a preload whose set_image_from_bytes failed answers 500     *)
(* 'Failed to preload image'.                                               *)
C30_PreloadReportsOutcome ==
    /\ (last.op = "preload" /\ last.status = 200 /\ last.success)
       => predictor.image_id = last.arg
    /\ (last.op = "preload" /\ last.ensured = "failed")
       => (last.status = 500 /\ last.detail = "Failed to preload image")

(* A preload answered from the cache did find the image resident. *)
CachedPreloadIsResident ==
    (last.op = "preload" /\ last.status = 200 /\ last.ensured = "no")
    => predictor.image_id = last.arg


====
